---------------------------- MODULE Spec2Model ----------------------------
(***************************************************************************)
(* Model of the admission-control and persistence core of the interactive  *)
(* button application: RateLimiter and ConnectionLimiter                   *)
(* (src/rate_limiter.py), DataManager (src/data_manager.py) and the        *)
(* handlers of src/app.py that call them.                                  *)
(*                                                                         *)
(* The specifications share the variables:                                 *)
(*   SpecRL       the sliding-window rate limiter under a monotonic clock  *)
(*   SpecConn     concurrent handle_connect / handle_disconnect handlers   *)
(*   SpecDM       the data manager over a small file system                *)
(*   SpecBackup   create_backup and its rotation next to a saver           *)
(*   SpecSnapshot create_backup over stored documents, with its faults     *)
(*   SpecRestore  restore_from_backup and the three saves it makes         *)
(*   SpecLock     two threads on the per-document locks                    *)
(*   SpecTask     the cleanup_task thread, under weak fairness             *)
(*   SpecApp      concurrent handle_button_click handlers                  *)
(*   SpecSchedule cleanup_task with the time its sleeps take               *)
(*   SpecConsistent create_backup next to handlers that save documents     *)
(*   SpecWait     threads that wait at the Locks, under fairness           *)
(*   SpecRoundTrip create_backup, later saves, then restore_from_backup    *)
(***************************************************************************)
EXTENDS Integers, Sequences, FiniteSets, TLC

VARIABLES
    now,                 \* time.time() as read under RateLimiter.lock
    requests,            \* RateLimiter.requests: client_id -> deque of timestamps
    warning_counts,      \* RateLimiter.warning_counts: client_id -> int
    rlRet,               \* the last RateLimiter call and what it returned
    admitted,            \* history: per client, the last admitted call times
    active_connections,  \* ConnectionLimiter.active_connections
    connPc,              \* per session: position of its handle_connect handler
    connRet,             \* per session: what its last handle_connect decided
    os_name,             \* os.name of the platform the process runs on
    clock,               \* wall clock in seconds (time.time(), strftime to the second)
    today,               \* datetime.now().strftime("%Y-%m-%d")
    file,                \* per document name: content of the target file
    tmp,                 \* per document name: content of '<file>.tmp'
    quarantine,          \* the '<file>.corrupted.<timestamp>' files
    savePc,              \* per name: position of the save holding the name's lock
    saveArg,             \* per name: the dict that save is writing (stamped)
    saveGiven,           \* per name: the argument of the last save and the date it read
    saveRet,             \* per name: outcome of the last save
    fresh,               \* per name: the target was last written by a returned save
    loadRet,             \* per name: outcome of the last load
    backups,             \* BACKUP_DIR: the snapshot files, oldest mtime first
    bkPc,                \* position of the create_backup call in progress
    bkStamp,             \* its timestamp (the snapshot's file name)
    bkData,              \* the documents it has loaded so far
    bkRet,               \* what the last create_backup call returned
    bkCreated,           \* history: names returned by the last successful calls
    bkFault,             \* history: an I/O fault has hit a create_backup call
    rsPc,                \* position of the restore_from_backup call in progress
    rsInput,             \* content of the file at backup_path it was given
    rsSuccess,           \* its local variable success
    rsSaves,             \* per name: what the save it called returned
    rsRet,               \* what the last restore_from_backup call returned
    locks,               \* DataManager._file_locks and RateLimiter.lock: per
                         \* lock, the holding thread
    tpc,                 \* per thread: the DataManager call it is in
    taskPc,              \* position of the cleanup_task thread
    taskFailed,          \* history: a cycle failed / a cycle began after it
    button_state,        \* the global dict button_state of app.py
    clickPc,             \* per client: position of its handle_button_click
    clickLocal,          \* per client: the count its handler read
    clickOut,            \* per client: what its last handler saved and emitted
    bkSeen               \* history: the contents the three document files
                         \* held at some instant of the current create_backup

rlVars   == <<now, requests, warning_counts, rlRet, admitted>>
connVars == <<active_connections, connPc, connRet>>
dmVars   == <<os_name, clock, today, file, tmp, quarantine, savePc, saveArg,
              saveGiven, saveRet, fresh, loadRet>>
bkVars   == <<backups, bkPc, bkStamp, bkData, bkRet, bkCreated, bkFault>>
rsVars   == <<rsPc, rsInput, rsSuccess, rsSaves, rsRet>>
lkVars   == <<locks, tpc>>
taskVars == <<taskPc, taskFailed>>
appVars  == <<button_state, clickPc, clickLocal, clickOut>>

\* what the actions of one component leave alone
exceptDM     == <<rlVars, connVars, bkVars, rsVars, lkVars, taskVars, appVars>>
exceptBackup == <<rlVars, connVars, rsVars, lkVars, taskVars, appVars>>
notRL     == <<connVars, dmVars, bkVars, rsVars, lkVars, taskVars, appVars,
               bkSeen>>
notConn   == <<rlVars, dmVars, bkVars, rsVars, lkVars, taskVars, appVars,
               bkSeen>>
notDM     == <<exceptDM, bkSeen>>
notBackup == <<exceptBackup, bkSeen>>
notRestore == <<rlVars, connVars, bkVars, lkVars, taskVars, appVars, bkSeen>>
notLock   == <<rlVars, connVars, bkVars, rsVars, taskVars, appVars, bkSeen>>
notApp    == <<connVars, bkVars, rsVars, lkVars, taskVars, bkSeen>>
notTask   == <<connVars, rsVars, lkVars, appVars, bkSeen>>
vars     == <<now, requests, warning_counts, rlRet, admitted,
              active_connections, connPc, connRet,
              os_name, clock, today, file, tmp, quarantine, savePc, saveArg,
              saveGiven, saveRet, fresh, loadRet,
              backups, bkPc, bkStamp, bkData, bkRet, bkCreated, bkFault,
              rsPc, rsInput, rsSuccess, rsSaves, rsRet, locks, tpc,
              taskPc, taskFailed,
              button_state, clickPc, clickLocal, clickOut, bkSeen>>

Max(a, b) == IF a >= b THEN a ELSE b

(***************************************************************************)
(* RateLimiter                                                             *)
(***************************************************************************)
Clients == {"A", "B"}

\* max_requests_per_minute (R), scaled down
max_requests == 2

\* the window of rate_limiter.py:36, in seconds
WINDOW == 60

\* the clock stops here; it advances by one of ClockSteps, so that ages
\* below, equal to and above WINDOW all occur
MaxTime == 62
ClockSteps == {30, 31}

\* warning_counts saturates here (it only drives logging)
MaxWarn == 2

\* defaultdict access: an absent key reads as the empty deque / zero
GetLog(tbl, c) == IF c \in DOMAIN tbl THEN tbl[c] ELSE <<>>
GetWarn(tbl, c) == IF c \in DOMAIN tbl THEN tbl[c] ELSE 0
\* mutant of Put: one log shared by every identity
PutShared(tbl, c, v) == [x \in (DOMAIN tbl) \cup {c} |-> v]

Put(tbl, c, v) == [x \in (DOMAIN tbl) \cup {c} |-> IF x = c THEN v ELSE tbl[x]]
\* mutant of Drop: the marked clients stay in the table
DropNone(tbl, cs) == tbl

Drop(tbl, cs) == [x \in (DOMAIN tbl) \ cs |-> tbl[x]]

\* an entry of age exactly WINDOW is dropped as well
ExpiredAtBoundary(t, ts) == t - ts >= WINDOW

\* current_time - client_requests[0] > 60
Expired(t, ts) == t - ts > WINDOW

\* the purge loop written as a single 'if': at most one entry is dropped
PurgeOne(log, t) ==
    IF log # <<>> /\ Expired(t, Head(log)) THEN Tail(log) ELSE log

\* the purge loop left out
PurgeNone(log, t) == log

\* while client_requests and expired(client_requests[0]): popleft()
RECURSIVE PurgeOld(_, _)
PurgeOld(log, t) ==
    IF log # <<>> /\ Expired(t, Head(log)) THEN PurgeOld(Tail(log), t) ELSE log

\* len(client_requests) < self.max_requests, after the purge at time t
AllowedAt(tbl, c, t) == Len(PurgeOld(GetLog(tbl, c), t)) < max_requests

\* max(0, self.max_requests - len(client_requests)), after the purge at time t
RemainingAt(tbl, c, t) == Max(0, max_requests - Len(PurgeOld(GetLog(tbl, c), t)))

\* the admitted-call history keeps the last max_requests + 1 call times
Remember(h, t) ==
    LET h2 == Append(h, t)
    IN IF Len(h2) > max_requests + 1 THEN Tail(h2) ELSE h2

\* mutant of IsAllowed: the timestamp is appended before the limit is checked
IsAllowedLogsRefusals(c) ==
    LET log == PurgeOld(GetLog(requests, c), now)
    IN /\ requests' = Put(requests, c, Append(log, now))
       /\ warning_counts' =
            IF AllowedAt(requests, c, now) THEN warning_counts
            ELSE Put(warning_counts, c,
                     IF GetWarn(warning_counts, c) < MaxWarn
                     THEN GetWarn(warning_counts, c) + 1 ELSE MaxWarn)
       /\ admitted' = IF AllowedAt(requests, c, now)
                      THEN [admitted EXCEPT ![c] = Remember(@, now)]
                      ELSE admitted
       /\ rlRet' = [op |-> "is_allowed", client |-> c,
                    allowed |-> AllowedAt(requests, c, now),
                    remaining |-> 0, at |-> now]
       /\ now' = now

\* is_allowed(client_id)
IsAllowed(c) ==
    LET log == PurgeOld(GetLog(requests, c), now)
    IN IF AllowedAt(requests, c, now)
       THEN /\ requests' = Put(requests, c, Append(log, now))
            /\ warning_counts' = warning_counts
            /\ admitted' = [admitted EXCEPT ![c] = Remember(@, now)]
            /\ rlRet' = [op |-> "is_allowed", client |-> c,
                         allowed |-> TRUE, remaining |-> 0, at |-> now]
            /\ now' = now
       ELSE /\ requests' = Put(requests, c, log)
            /\ warning_counts' =
                 Put(warning_counts, c,
                     IF GetWarn(warning_counts, c) < MaxWarn
                     THEN GetWarn(warning_counts, c) + 1 ELSE MaxWarn)
            /\ admitted' = admitted
            /\ rlRet' = [op |-> "is_allowed", client |-> c,
                         allowed |-> FALSE, remaining |-> 0, at |-> now]
            /\ now' = now

\* get_remaining_requests(client_id)
GetRemaining(c) ==
    LET log == PurgeOld(GetLog(requests, c), now)
    IN /\ requests' = Put(requests, c, log)
       /\ rlRet' = [op |-> "get_remaining_requests", client |-> c,
                    allowed |-> FALSE,
                    remaining |-> RemainingAt(requests, c, now), at |-> now]
       /\ UNCHANGED <<now, warning_counts, admitted>>

\* cleanup_old_entries()
CleanupOldEntries ==
    LET purged == [c \in DOMAIN requests |-> PurgeOld(requests[c], now)]
        clients_to_remove == {c \in DOMAIN purged : purged[c] = <<>>}
    IN /\ requests' = Drop(purged, clients_to_remove)
       /\ warning_counts' = Drop(warning_counts, clients_to_remove)
       /\ rlRet' = [op |-> "cleanup_old_entries", client |-> "",
                    allowed |-> FALSE, remaining |-> 0, at |-> now]
       /\ UNCHANGED <<now, admitted>>

\* time passes between two calls; time.time() is read under the lock, so the
\* calls see a non-decreasing clock
Tick ==
    /\ \E d \in ClockSteps : now + d <= MaxTime /\ now' = now + d
    /\ UNCHANGED <<requests, warning_counts, rlRet, admitted>>

InitRL ==
    /\ now = 0
    /\ requests = <<>>
    /\ warning_counts = <<>>
    /\ rlRet = [op |-> "none", client |-> "", allowed |-> FALSE,
                remaining |-> 0, at |-> 0]
    /\ admitted = [c \in Clients |-> <<>>]

NextRL ==
    \/ \E c \in Clients : IsAllowed(c) /\ UNCHANGED notRL
    \/ \E c \in Clients : GetRemaining(c) /\ UNCHANGED notRL
    \/ CleanupOldEntries /\ UNCHANGED notRL
    \/ Tick /\ UNCHANGED notRL

(***************************************************************************)
(* ConnectionLimiter, driven by handle_connect / handle_disconnect         *)
(***************************************************************************)
Sessions == {"s1", "s2", "s3", "s4"}

\* max_connections, scaled down
max_connections == 2

\* can_connect(client_id), the first locked section of handle_connect
CanConnect(s) ==
    /\ connPc[s] = "idle"
    /\ IF Cardinality(active_connections) >= max_connections
       THEN /\ connRet' = [connRet EXCEPT ![s] = "rejected"]
            /\ connPc' = connPc
       ELSE /\ connRet' = [connRet EXCEPT ![s] = "pending"]
            /\ connPc' = [connPc EXCEPT ![s] = "checked"]
    /\ UNCHANGED active_connections

\* add_connection(client_id), the second locked section of handle_connect
AddConnection(s) ==
    /\ connPc[s] = "checked"
    /\ active_connections' = active_connections \cup {s}
    /\ connPc' = [connPc EXCEPT ![s] = "idle"]
    /\ connRet' = [connRet EXCEPT ![s] = "connected"]

\* remove_connection(client_id), called by handle_disconnect
RemoveConnection(s) ==
    /\ connPc[s] = "idle"
    /\ active_connections' = active_connections \ {s}
    /\ connRet' = [connRet EXCEPT ![s] = "none"]
    /\ UNCHANGED connPc

InitConn ==
    /\ active_connections = {}
    /\ connPc = [s \in Sessions |-> "idle"]
    /\ connRet = [s \in Sessions |-> "none"]

NextConn ==
    \/ \E s \in Sessions : CanConnect(s) /\ UNCHANGED notConn
    \/ \E s \in Sessions : AddConnection(s) /\ UNCHANGED notConn
    \/ \E s \in Sessions : RemoveConnection(s) /\ UNCHANGED notConn

(***************************************************************************)
(* DataManager: the document store                                         *)
(***************************************************************************)
\* the keys of DataManager._file_locks
Names == {"clicks", "achievements", "stats"}

\* the wall clock of the document store stops here
MaxClock == 1
\* calendar dates are 1..MaxDay
MaxDay == 2

\* len(clicks_per_hour)
HOURS == 24

\* Python values. A dict is a function from its keys; anything else handed to
\* save (a list, None) is NonDict.
NonDict == [py |-> "list"]
NoDoc == [py |-> "none"]
IsDict(v) == "py" \notin DOMAIN v
HasKey(d, f) == f \in DOMAIN d
SetKey(d, f, v) == [x \in (DOMAIN d) \cup {f} |-> IF x = f THEN v ELSE d[x]]
Zeros == [h \in 1..HOURS |-> 0]
Clicked == [h \in 1..HOURS |-> IF h = 1 THEN 3 ELSE 0]

\* keys of player_achievements are user ids as the client sent them: strings
\* or numbers (app.py:271). json.dump writes every key as a string.
StrKey(k) == <<"str", k[2]>>
StrKeys(m) ==
    [k \in {StrKey(x) : x \in DOMAIN m} |->
        m[CHOOSE x \in DOMAIN m : StrKey(x) = k]]
KeyedFields == {"player_achievements"}

\* documents the callers hand to save
ClickDocs == {[count |-> 1], [count |-> 2, test |-> TRUE]}
AchDocs ==
    {[global_unlocked |-> <<"a1">>,
      player_achievements |-> [k \in {key} |-> <<"a1">>]] :
        key \in {<<"str", "u1">>, <<"int", "7">>}}
StatsDocs ==
    {[clicks_today |-> 3, date |-> d, clicks_per_hour |-> Clicked,
      unique_users |-> 1] : d \in 1..MaxDay}
Docs(n) ==
    IF n = "clicks" THEN ClickDocs
    ELSE IF n = "achievements" THEN AchDocs ELSE StatsDocs
SaveArgs(n) == Docs(n) \cup {NonDict}

\* file contents
Absent == [k |-> "absent"]
Partial == [k |-> "partial"]       \* a truncated write
BadText == [k |-> "text"]          \* text that is not JSON
BadBytes == [k |-> "binary"]       \* bytes that are not UTF-8 text
JsonOf(v) == [k |-> "json", v |-> v]
Exists(c) == c.k # "absent"

\* only the fields of the document's schema are written
JsonTextSchemaOnly(d) ==
    [f \in (DOMAIN d) \ {"test"} |->
        IF f \in KeyedFields THEN StrKeys(d[f]) ELSE d[f]]

\* json.dump(state, f): the value json.load reads back from what is written
JsonText(d) ==
    [f \in DOMAIN d |-> IF f \in KeyedFields THEN StrKeys(d[f]) ELSE d[f]]

\* the structure checks of the three load operations
Valid(n, v) == IsDict(v) /\ (n = "clicks" => HasKey(v, "count"))

\* contents an outside writer can leave in a document's file
InvalidContents(n) ==
    {BadText, BadBytes, JsonOf(NonDict)}
        \cup (IF n = "clicks" THEN {JsonOf([test |-> TRUE])} ELSE {})

\* default_state / default_achievements / default_stats
DefaultDoc(n, t, day) ==
    IF n = "clicks"
    THEN [count |-> 0, last_updated |-> t, version |-> "2.0"]
    ELSE IF n = "achievements"
    THEN [global_unlocked |-> <<>>, player_achievements |-> <<>>,
          version |-> "2.0"]
    ELSE [clicks_today |-> 0, date |-> day, clicks_per_hour |-> Zeros,
          unique_users |-> 0, user_sessions |-> <<>>, version |-> "2.0"]

\* the daily reset that forgets the hourly counts
RolloverKeepsHours(d, day) ==
    IF (~HasKey(d, "date")) \/ d["date"] # day
    THEN SetKey(SetKey(d, "clicks_today", 0), "date", day)
    ELSE d

\* the daily reset of save_stats
Rollover(d, day) ==
    IF (~HasKey(d, "date")) \/ d["date"] # day
    THEN SetKey(SetKey(SetKey(d, "clicks_today", 0), "date", day),
                "clicks_per_hour", Zeros)
    ELSE d

\* the dict after the stamping lines of save_button_state, save_achievements
\* and save_stats
Stamp(n, d, day, t) ==
    LET r == IF n = "stats" THEN Rollover(d, day) ELSE d
    IN SetKey(SetKey(r, "version", "2.0"), "last_updated", t)

LockFree(n) == savePc[n] = "idle"

\* a save returns: the lock is released
SaveReturn(n, r) ==
    /\ savePc' = [savePc EXCEPT ![n] = "idle"]
    /\ saveArg' = [saveArg EXCEPT ![n] = NoDoc]
    /\ saveRet' = [saveRet EXCEPT ![n] = r]

\* save_*(state): take the lock and stamp the argument. Stamping a value that
\* is no dict raises inside the try; the handler then reads temp_file, which
\* is not yet bound, and that error leaves the function.
SaveBegin(n, d) ==
    /\ LockFree(n)
    /\ saveGiven' = [saveGiven EXCEPT ![n] = [doc |-> d, today |-> today]]
    /\ fresh' = [fresh EXCEPT ![n] = FALSE]
    /\ loadRet' = [loadRet EXCEPT ![n] = [status |-> "none", doc |-> NoDoc]]
    /\ IF IsDict(d)
       THEN /\ savePc' = [savePc EXCEPT ![n] = "open"]
            /\ saveArg' = [saveArg EXCEPT ![n] = Stamp(n, d, today, clock)]
            /\ saveRet' = [saveRet EXCEPT ![n] = "running"]
       ELSE SaveReturn(n, "raised")
    /\ UNCHANGED <<os_name, clock, today, file, tmp, quarantine>>

\* open(temp_file, 'w')
SaveOpen(n, ok) ==
    /\ savePc[n] = "open"
    /\ IF ok
       THEN /\ tmp' = [tmp EXCEPT ![n] = Partial]
            /\ savePc' = [savePc EXCEPT ![n] = "dump"]
       ELSE /\ tmp' = tmp
            /\ savePc' = [savePc EXCEPT ![n] = "except"]
    /\ UNCHANGED <<os_name, clock, today, file, quarantine, saveArg,
                   saveGiven, saveRet, fresh, loadRet>>

\* json.dump(state, f, indent=2) and the close of the with block
SaveDump(n, ok) ==
    /\ savePc[n] = "dump"
    /\ IF ok
       THEN /\ tmp' = [tmp EXCEPT ![n] = JsonOf(JsonText(saveArg[n]))]
            /\ savePc' = [savePc EXCEPT ![n] = "replace"]
       ELSE /\ tmp' = tmp
            /\ savePc' = [savePc EXCEPT ![n] = "except"]
    /\ UNCHANGED <<os_name, clock, today, file, quarantine, saveArg,
                   saveGiven, saveRet, fresh, loadRet>>

\* mutant of SaveRenamed: a rename that leaves an existing target alone
SaveRenamedKeepsTarget(n) ==
    /\ file' = IF Exists(file[n]) THEN file ELSE [file EXCEPT ![n] = tmp[n]]
    /\ tmp' = [tmp EXCEPT ![n] = Absent]
    /\ fresh' = [fresh EXCEPT ![n] = TRUE]
    /\ SaveReturn(n, "true")

\* os.rename(temp_file, target) succeeded: return True
SaveRenamed(n) ==
    /\ file' = [file EXCEPT ![n] = tmp[n]]
    /\ tmp' = [tmp EXCEPT ![n] = Absent]
    /\ fresh' = [fresh EXCEPT ![n] = TRUE]
    /\ SaveReturn(n, "true")

\* the branch on os.name: on 'nt' the target is removed when it exists, the
\* rename follows as a separate call; elsewhere the rename replaces the target
SaveReplace(n, ok) ==
    /\ savePc[n] = "replace"
    /\ IF os_name = "nt"
       THEN /\ IF Exists(file[n])
               THEN IF ok
                    THEN /\ file' = [file EXCEPT ![n] = Absent]
                         /\ savePc' = [savePc EXCEPT ![n] = "nt_rename"]
                    ELSE /\ file' = file
                         /\ savePc' = [savePc EXCEPT ![n] = "except"]
               ELSE /\ ok
                    /\ file' = file
                    /\ savePc' = [savePc EXCEPT ![n] = "nt_rename"]
            /\ UNCHANGED <<tmp, saveArg, saveRet, fresh>>
       ELSE IF ok
            THEN SaveRenamed(n)
            ELSE /\ savePc' = [savePc EXCEPT ![n] = "except"]
                 /\ UNCHANGED <<file, tmp, saveArg, saveRet, fresh>>
    /\ UNCHANGED <<os_name, clock, today, quarantine, saveGiven, loadRet>>

\* os.rename(temp_file, target) of the 'nt' branch
SaveRenameNt(n, ok) ==
    /\ savePc[n] = "nt_rename"
    /\ IF ok
       THEN SaveRenamed(n)
       ELSE /\ savePc' = [savePc EXCEPT ![n] = "except"]
            /\ UNCHANGED <<file, tmp, saveArg, saveRet, fresh>>
    /\ UNCHANGED <<os_name, clock, today, quarantine, saveGiven, loadRet>>

\* except Exception: remove the temp file if it exists (a failing remove is
\* swallowed), return False
SaveExcept(n, ok) ==
    /\ savePc[n] = "except"
    /\ IF Exists(tmp[n]) /\ ok
       THEN tmp' = [tmp EXCEPT ![n] = Absent]
       ELSE /\ (~Exists(tmp[n])) => ok
            /\ tmp' = tmp
    /\ SaveReturn(n, "false")
    /\ UNCHANGED <<os_name, clock, today, file, quarantine, saveGiven,
                   fresh, loadRet>>

\* mutant of LoadOutcome: a permission error is answered with the default
LoadOutcomeMasksDenied(n, err) ==
    LET c == file[n]
        dflt == DefaultDoc(n, clock, today)
    IN IF err \in {"perm", "io"} \/ ~Exists(c)
       THEN [status |-> "default", doc |-> dflt, copy |-> FALSE]
       ELSE IF c.k \in {"text", "partial"}
       THEN [status |-> "default", doc |-> dflt, copy |-> TRUE]
       ELSE IF c.k = "binary" \/ ~Valid(n, c.v)
       THEN [status |-> "default", doc |-> dflt, copy |-> FALSE]
       ELSE [status |-> "read", doc |-> c.v, copy |-> FALSE]

\* what _safe_file_operation(load_operation) does for the file as it is:
\* which except clause runs, what is returned, whether the file is copied
LoadOutcome(n, err) ==
    LET c == file[n]
        dflt == DefaultDoc(n, clock, today)
    IN IF err = "perm"
       THEN [status |-> "raised", doc |-> NoDoc, copy |-> FALSE]
       ELSE IF err = "io"
       THEN [status |-> "default", doc |-> dflt, copy |-> FALSE]
       ELSE IF ~Exists(c)
       THEN [status |-> "default", doc |-> dflt, copy |-> FALSE]
       ELSE IF c.k \in {"text", "partial"}
       THEN [status |-> "default", doc |-> dflt, copy |-> TRUE]
       ELSE IF c.k = "binary"
       THEN [status |-> "default", doc |-> dflt, copy |-> FALSE]
       ELSE IF ~Valid(n, c.v)
       THEN [status |-> "default", doc |-> dflt, copy |-> FALSE]
       ELSE [status |-> "read", doc |-> c.v, copy |-> FALSE]

\* _backup_corrupted_file: shutil.copy2 to '<file>.corrupted.<timestamp>'
\* (a copy made in the same second replaces the earlier one)
Quarantined(q, n, t, c) ==
    {x \in q : ~(x.name = n /\ x.stamp = t)}
        \cup {[name |-> n, stamp |-> t, content |-> c]}

\* mutant of Load: an unparseable file is renamed aside instead of copied
LoadRenamesAside(n, err, copyOk) ==
    /\ LockFree(n)
    /\ LET r == LoadOutcome(n, err)
       IN /\ loadRet' = [loadRet EXCEPT ![n] = [status |-> r.status, doc |-> r.doc]]
          /\ quarantine' = IF r.copy /\ copyOk
                           THEN Quarantined(quarantine, n, clock, file[n])
                           ELSE quarantine
          /\ file' = IF r.copy /\ copyOk
                     THEN [file EXCEPT ![n] = Absent] ELSE file
    /\ UNCHANGED <<os_name, clock, today, tmp, savePc, saveArg,
                   saveGiven, saveRet, fresh>>

\* load_*(): one locked section
Load(n, err, copyOk) ==
    /\ LockFree(n)
    /\ LET r == LoadOutcome(n, err)
       IN /\ loadRet' = [loadRet EXCEPT ![n] = [status |-> r.status, doc |-> r.doc]]
          /\ quarantine' = IF r.copy /\ copyOk
                           THEN Quarantined(quarantine, n, clock, file[n])
                           ELSE quarantine
    /\ UNCHANGED <<os_name, clock, today, file, tmp, savePc, saveArg,
                   saveGiven, saveRet, fresh>>

\* another writer leaves invalid content in a document's file
WriteInvalid(n, c) ==
    /\ LockFree(n)
    /\ file[n] # c
    /\ file' = [file EXCEPT ![n] = c]
    /\ fresh' = [fresh EXCEPT ![n] = FALSE]
    /\ UNCHANGED <<os_name, clock, today, tmp, quarantine, savePc, saveArg,
                   saveGiven, saveRet, loadRet>>

\* a second passes
TickClock ==
    /\ clock' = clock + 1
    /\ UNCHANGED <<os_name, today, file, tmp, quarantine, savePc, saveArg,
                   saveGiven, saveRet, fresh, loadRet>>

\* midnight passes
NewDay ==
    /\ clock' = clock + 1
    /\ today' = today + 1
    /\ UNCHANGED <<os_name, file, tmp, quarantine, savePc, saveArg,
                   saveGiven, saveRet, fresh, loadRet>>

InitDM ==
    /\ os_name \in {"posix", "nt"}
    /\ clock = 0
    /\ today = 1
    /\ file = [n \in Names |-> Absent]
    /\ tmp = [n \in Names |-> Absent]
    /\ quarantine = {}
    /\ savePc = [n \in Names |-> "idle"]
    /\ saveArg = [n \in Names |-> NoDoc]
    /\ saveGiven = [n \in Names |-> [doc |-> NoDoc, today |-> 0]]
    /\ saveRet = [n \in Names |-> "none"]
    /\ fresh = [n \in Names |-> FALSE]
    /\ loadRet = [n \in Names |-> [status |-> "none", doc |-> NoDoc]]

\* The three documents share no file and no lock, so SpecDM follows the
\* operations on one document at a time: the other two are left as they
\* start.
Untouched(m) ==
    /\ file[m] = Absent /\ tmp[m] = Absent
    /\ savePc[m] = "idle" /\ saveRet[m] = "none"
    /\ saveGiven[m].doc = NoDoc /\ loadRet[m].status = "none"
Alone(n) == \A m \in Names \ {n} : Untouched(m)

NextDM ==
    \/ \E n \in Names : \E d \in SaveArgs(n) :
          Alone(n) /\ SaveBegin(n, d) /\ UNCHANGED notDM
    \/ \E n \in Names : \E ok \in BOOLEAN :
          SaveOpen(n, ok) /\ UNCHANGED notDM
    \/ \E n \in Names : \E ok \in BOOLEAN :
          SaveDump(n, ok) /\ UNCHANGED notDM
    \/ \E n \in Names : \E ok \in BOOLEAN :
          SaveReplace(n, ok) /\ UNCHANGED notDM
    \/ \E n \in Names : \E ok \in BOOLEAN :
          SaveRenameNt(n, ok) /\ UNCHANGED notDM
    \/ \E n \in Names : \E ok \in BOOLEAN :
          SaveExcept(n, ok) /\ UNCHANGED notDM
    \/ \E n \in Names : \E err \in {"none", "perm", "io"} : \E copyOk \in BOOLEAN :
          Alone(n) /\ Load(n, err, copyOk) /\ UNCHANGED notDM
    \/ \E n \in Names : \E c \in InvalidContents(n) :
          Alone(n) /\ WriteInvalid(n, c) /\ UNCHANGED notDM
    \/ clock < MaxClock /\ TickClock /\ UNCHANGED notDM
    \/ clock < MaxClock /\ today < MaxDay /\ NewDay
          /\ UNCHANGED notDM

(***************************************************************************)
(* DataManager: create_backup and the rotation of the snapshot files       *)
(***************************************************************************)
\* Config.MAX_BACKUPS, scaled down
MAX_BACKUPS == 2

Stamps(dir) == {dir[i].stamp : i \in DOMAIN dir}

\* open(backup_path, 'w'): the file of that name is replaced and becomes
\* the newest of the directory
WriteSnapshot(dir, t, c) ==
    Append(SelectSeq(dir, LAMBDA e : e.stamp # t), [stamp |-> t, content |-> c])

\* the files _cleanup_old_backups removes, in the order it removes them:
\* sorted newest first, everything after the first MAX_BACKUPS
Excess(dir) == IF Len(dir) > MAX_BACKUPS THEN Len(dir) - MAX_BACKUPS ELSE 0

\* the directory after the first k of those removals
Removed(dir, k) ==
    LET x == Excess(dir)
    IN [i \in 1..(Len(dir) - k) |->
          IF i <= x - k THEN dir[i] ELSE dir[i + k]]

\* the successful-call history keeps the last MAX_BACKUPS + 1 names
RememberBackup(h, t) ==
    LET h2 == Append(h, t)
    IN IF Len(h2) > MAX_BACKUPS + 1 THEN Tail(h2) ELSE h2

\* the keys of a snapshot that hold the three documents
SnapshotKeys == {"button_state", "achievements", "stats"}

\* mutant of Snapshot: the statistics document is left out
SnapshotWithoutStats(t, data) ==
    [timestamp |-> t,
     button_state |-> JsonText(data["clicks"]),
     achievements |-> JsonText(data["achievements"]),
     version |-> "2.0"]

\* backup_data of create_backup
Snapshot(t, data) ==
    [timestamp |-> t,
     button_state |-> JsonText(data["clicks"]),
     achievements |-> JsonText(data["achievements"]),
     stats |-> JsonText(data["stats"]),
     version |-> "2.0"]

\* create_backup returns
BackupReturn(r) ==
    /\ bkPc' = "idle"
    /\ bkRet' = r
    /\ bkData' = [n \in Names |-> NoDoc]

NextLoad(n) ==
    IF n = "clicks" THEN "load_achievements"
    ELSE IF n = "achievements" THEN "load_stats" ELSE "write"

\* create_backup(): the timestamp and the path
BackupBegin ==
    /\ bkPc = "idle"
    /\ bkPc' = "load_clicks"
    /\ bkStamp' = clock
    /\ bkRet' = [status |-> "running", stamp |-> clock]
    /\ UNCHANGED <<backups, bkData, bkCreated, bkFault, dmVars>>

\* the load_button_state / load_achievements / load_stats calls of
\* create_backup, in that order; a PermissionError ends the call with None
BackupLoad(n, err, copyOk) ==
    /\ bkPc = IF n = "clicks" THEN "load_clicks"
              ELSE IF n = "achievements" THEN "load_achievements"
              ELSE "load_stats"
    /\ Load(n, err, copyOk)
    /\ bkFault' = (bkFault \/ err # "none")
    /\ IF LoadOutcome(n, err).status = "raised"
       THEN BackupReturn([status |-> "none", stamp |-> bkStamp])
       ELSE /\ bkData' = [bkData EXCEPT ![n] = LoadOutcome(n, err).doc]
            /\ bkPc' = NextLoad(n)
            /\ bkRet' = bkRet
    /\ UNCHANGED <<backups, bkStamp, bkCreated>>

\* open(backup_path, 'w') and json.dump(backup_data, f): a failing dump
\* leaves the truncated file behind
BackupWrite(outcome) ==
    /\ bkPc = "write"
    /\ bkFault' = (bkFault \/ outcome # "ok")
    /\ IF outcome = "ok"
       THEN /\ backups' = WriteSnapshot(backups, bkStamp,
                                        JsonOf(Snapshot(bkStamp, bkData)))
            /\ bkPc' = "cleanup"
            /\ UNCHANGED <<bkData, bkRet>>
       ELSE /\ backups' = IF outcome = "dump_failed"
                          THEN WriteSnapshot(backups, bkStamp, Partial)
                          ELSE backups
            /\ BackupReturn([status |-> "none", stamp |-> bkStamp])
    /\ UNCHANGED <<bkStamp, bkCreated, dmVars>>

\* _cleanup_old_backups(), then return backup_path; k removals succeed, the
\* next one fails and the error is logged
BackupCleanup(k) ==
    /\ bkPc = "cleanup"
    /\ k \in 0..Excess(backups)
    /\ backups' = Removed(backups, k)
    /\ bkFault' = (bkFault \/ k < Excess(backups))
    /\ bkCreated' = RememberBackup(bkCreated, bkStamp)
    /\ BackupReturn([status |-> "path", stamp |-> bkStamp])
    /\ UNCHANGED <<bkStamp, dmVars>>

\* the document a load_* call without an I/O error returns when the file of
\* the name holds content c
DocAt(n, c) ==
    IF Exists(c) /\ c.k = "json" /\ Valid(n, c.v)
    THEN c.v ELSE DefaultDoc(n, clock, today)

\* history of the document files over one create_backup call: the contents
\* at its start and after every step taken until it returns
Observe ==
    bkSeen' = IF bkPc = "idle" /\ bkPc' = "idle" THEN bkSeen
              ELSE IF bkPc = "idle" THEN {file'}
              ELSE bkSeen \cup {file'}

InitBackup ==
    /\ backups = <<>>
    /\ bkPc = "idle"
    /\ bkStamp = 0
    /\ bkData = [n \in Names |-> NoDoc]
    /\ bkRet = [status |-> "none", stamp |-> 0]
    /\ bkCreated = <<>>
    /\ bkFault = FALSE
    /\ bkSeen = {}

\* the clock of SpecBackup stops here
MaxBackupClock == 2

\* what the savers running next to create_backup write
BackupSaverDocs == {[count |-> 1]}

\* the background task's create_backup calls, next to savers of the counter
\* document, on a platform whose rename replaces the target
NextBackup ==
    \/ BackupBegin /\ UNCHANGED notBackup
    \/ \E n \in Names : \E err \in {"none", "perm"} :
          BackupLoad(n, err, TRUE) /\ UNCHANGED notBackup
    \/ \E o \in {"ok", "open_failed", "dump_failed"} :
          BackupWrite(o) /\ UNCHANGED notBackup
    \/ \E k \in 0..MAX_BACKUPS :
          BackupCleanup(k) /\ UNCHANGED notBackup
    \/ \E d \in BackupSaverDocs :
          SaveBegin("clicks", d) /\ UNCHANGED notDM
    \/ SaveOpen("clicks", TRUE) /\ UNCHANGED notDM
    \/ SaveDump("clicks", TRUE) /\ UNCHANGED notDM
    \/ SaveReplace("clicks", TRUE) /\ UNCHANGED notDM
    \/ clock < MaxBackupClock /\ TickClock /\ UNCHANGED notDM

(***************************************************************************)
(* DataManager: restore_from_backup                                        *)
(***************************************************************************)
\* the documents of the snapshot that is restored
RestoredDoc(n) ==
    IF n = "clicks" THEN [count |-> 2]
    ELSE IF n = "achievements"
    THEN [global_unlocked |-> <<"a1", "a2">>,
          player_achievements |-> [k \in {<<"str", "u1">>} |-> <<"a2">>]]
    ELSE [clicks_today |-> 5, date |-> 1, clicks_per_hour |-> Clicked,
          unique_users |-> 2]

\* a snapshot as create_backup writes it
GoodSnapshot == Snapshot(0, [n \in Names |-> Stamp(n, RestoredDoc(n), 1, 0)])

\* what the file at backup_path may hold: a snapshot, a snapshot without
\* its "stats" key, a snapshot whose "button_state" is a JSON list, a JSON
\* list, a truncated file, no file
RestoreInputs ==
    {JsonOf(GoodSnapshot),
     JsonOf([f \in (DOMAIN GoodSnapshot) \ {"stats"} |-> GoodSnapshot[f]]),
     JsonOf(SetKey(GoodSnapshot, "button_state", NonDict)),
     JsonOf(NonDict), Partial, Absent}

\* mutant of HasAllKeys: the required keys are not checked
HasAllKeysUnchecked(c) == c.k = "json" /\ IsDict(c.v)

\* open + json.load succeed and all(key in backup_data for key in required_keys)
HasAllKeys(c) == c.k = "json" /\ IsDict(c.v) /\ SnapshotKeys \subseteq DOMAIN c.v

\* mutant of KeyOf: every document is taken from the "button_state" key
KeyOfCounterOnly(n) == "button_state"

\* the key of backup_data that holds the document of a name
KeyOf(n) == IF n = "clicks" THEN "button_state" ELSE n

\* the order of the three save calls
NextSave(n) ==
    IF n = "clicks" THEN "achievements"
    ELSE IF n = "achievements" THEN "stats" ELSE "done"

\* mutant of RestoreSuccess: the result of the last save replaces the others
RestoreSuccessLast(acc, r) == r = "true"

\* success &= self.save_*(...)
RestoreSuccess(acc, r) == acc /\ r = "true"

\* restore_from_backup returns
RestoreReturn(r) ==
    /\ rsPc' = [st |-> "idle", name |-> ""]
    /\ rsRet' = r

\* restore_from_backup(backup_path): read the file and check the keys; an
\* unreadable file or a missing key raises into the except clause
RestoreBegin(c) ==
    /\ rsPc.st = "idle"
    /\ rsInput' = c
    /\ rsSuccess' = TRUE
    /\ rsSaves' = [n \in Names |-> "none"]
    /\ IF HasAllKeys(c)
       THEN /\ rsPc' = [st |-> "call", name |-> "clicks"]
            /\ rsRet' = "running"
       ELSE RestoreReturn("false")
    /\ UNCHANGED dmVars

\* the call of save_button_state / save_achievements / save_stats; a save
\* that raises ends restore_from_backup in its except clause
RestoreCall(n) ==
    /\ rsPc = [st |-> "call", name |-> n]
    /\ SaveBegin(n, rsInput.v[KeyOf(n)])
    /\ IF savePc'[n] = "idle"
       THEN /\ rsSaves' = [rsSaves EXCEPT ![n] = saveRet'[n]]
            /\ RestoreReturn("false")
       ELSE /\ rsPc' = [st |-> "wait", name |-> n]
            /\ UNCHANGED <<rsSaves, rsRet>>
    /\ UNCHANGED <<rsInput, rsSuccess>>

\* the save returned: fold its result into success, go on with the next
\* save or return success
RestoreResume(n) ==
    /\ rsPc = [st |-> "wait", name |-> n]
    /\ savePc[n] = "idle"
    /\ rsSaves' = [rsSaves EXCEPT ![n] = saveRet[n]]
    /\ rsSuccess' = RestoreSuccess(rsSuccess, saveRet[n])
    /\ IF NextSave(n) = "done"
       THEN RestoreReturn(IF rsSuccess' THEN "true" ELSE "false")
       ELSE /\ rsPc' = [st |-> "call", name |-> NextSave(n)]
            /\ rsRet' = rsRet
    /\ UNCHANGED <<rsInput, dmVars>>

InitRestore ==
    /\ rsPc = [st |-> "idle", name |-> ""]
    /\ rsInput = Absent
    /\ rsSuccess = TRUE
    /\ rsSaves = [n \in Names |-> "none"]
    /\ rsRet = "none"

(***************************************************************************)
(* DataManager._file_locks: the threads that call load_* and save_*        *)
(***************************************************************************)
Threads == {"t1", "t2"}


\* the Locks: one per document (DataManager._file_locks) and the one of
\* the RateLimiter, which guards every log
LockKeys == Names \cup {"rate"}

\* the key of _file_locks that guards a document: 'clicks', 'achievements'
\* and 'stats' each have a Lock of their own
LockOf(n) == n

\* mutant of CanAcquire: the with statement never waits
CanAcquireAlways(n) == TRUE

\* 'with self._file_locks[...]' can be entered: the Lock is not held
CanAcquire(n) == locks[LockOf(n)] = "free"

\* thread t is inside the with block of an operation on document n
Inside(t, n) == tpc[t].st # "idle" /\ tpc[t].name = n

\* the with block is entered by a thread that called load_* or save_*
ThreadAcquire(t, op, n) ==
    /\ tpc[t].st = "idle"
    /\ CanAcquire(n)
    /\ locks' = [locks EXCEPT ![LockOf(n)] = t]
    /\ tpc' = [tpc EXCEPT ![t] = [op |-> op, name |-> n, st |-> "locked"]]
    /\ UNCHANGED dmVars

\* mutant of ThreadRelease: the Lock stays held when the block is left
ThreadReleaseKeepsLock(t, n) ==
    /\ locks' = locks
    /\ tpc' = [tpc EXCEPT ![t] = [op |-> "none", name |-> "", st |-> "idle"]]

\* the with block is left, by a return or by an exception
ThreadRelease(t, n) ==
    /\ locks' = [locks EXCEPT ![LockOf(n)] = "free"]
    /\ tpc' = [tpc EXCEPT ![t] = [op |-> "none", name |-> "", st |-> "idle"]]

\* the body of load_*
ThreadLoad(t, n, err) ==
    /\ tpc[t] = [op |-> "load", name |-> n, st |-> "locked"]
    /\ Load(n, err, TRUE)
    /\ ThreadRelease(t, n)

\* the body of save_* up to the stamping
ThreadSaveBegin(t, n, d) ==
    /\ tpc[t] = [op |-> "save", name |-> n, st |-> "locked"]
    /\ SaveBegin(n, d)
    /\ IF savePc'[n] = "idle"
       THEN ThreadRelease(t, n)
       ELSE /\ tpc' = [tpc EXCEPT ![t].st = "running"]
            /\ locks' = locks

\* a later step of the body of save_*; the lock is released when it returns
ThreadSaveStep(t, n, step) ==
    /\ tpc[t] = [op |-> "save", name |-> n, st |-> "running"]
    /\ step
    /\ IF savePc'[n] = "idle"
       THEN ThreadRelease(t, n)
       ELSE UNCHANGED <<locks, tpc>>

\* a thread calls an operation and reaches its with statement
ThreadCall(t, op, n) ==
    /\ tpc[t].st = "idle"
    /\ tpc' = [tpc EXCEPT ![t] = [op |-> op, name |-> n, st |-> "waiting"]]
    /\ UNCHANGED <<locks, dmVars, rlVars>>

\* the with statement it waits at is entered once the Lock is free
ThreadEnter(t) ==
    /\ tpc[t].st = "waiting"
    /\ CanAcquire(tpc[t].name)
    /\ locks' = [locks EXCEPT ![LockOf(tpc[t].name)] = t]
    /\ tpc' = [tpc EXCEPT ![t].st = "locked"]
    /\ UNCHANGED <<dmVars, rlVars>>

\* the body of is_allowed, under RateLimiter.lock
ThreadIsAllowed(t, c) ==
    /\ tpc[t] = [op |-> "is_allowed", name |-> "rate", st |-> "locked"]
    /\ IsAllowed(c)
    /\ ThreadRelease(t, "rate")
    /\ UNCHANGED dmVars

\* the body of cleanup_old_entries, under RateLimiter.lock
ThreadCleanup(t) ==
    /\ tpc[t] = [op |-> "cleanup_old_entries", name |-> "rate", st |-> "locked"]
    /\ CleanupOldEntries
    /\ ThreadRelease(t, "rate")
    /\ UNCHANGED dmVars

InitLock ==
    /\ locks = [k \in LockKeys |-> "free"]
    /\ tpc = [t \in Threads |-> [op |-> "none", name |-> "", st |-> "idle"]]

(***************************************************************************)
(* app.py: the cleanup_task thread                                         *)
(***************************************************************************)
\* mutant of TaskAfterFailure: the exception leaves the while loop
TaskAfterFailureStops == "dead"

\* where cleanup_task goes on after 'except Exception' has logged the
\* error: the try statement is inside 'while True', so with the next sleep
TaskAfterFailure == "sleep"

\* time.sleep(300) returns: the cycle begins
TaskWake ==
    /\ taskPc = "sleep"
    /\ taskPc' = "cleanup"
    /\ taskFailed' = IF taskFailed = "failed" THEN "recovered" ELSE taskFailed
    /\ UNCHANGED <<rlVars, dmVars, bkVars>>

\* rate_limiter.cleanup_old_entries(), which returns or raises
TaskCleanup(ok) ==
    /\ taskPc = "cleanup"
    /\ IF ok
       THEN /\ CleanupOldEntries
            /\ taskPc' = "backup"
            /\ taskFailed' = taskFailed
       ELSE /\ UNCHANGED rlVars
            /\ taskPc' = "except"
            /\ taskFailed' = "failed"
    /\ UNCHANGED <<dmVars, bkVars>>

\* data_manager.create_backup() is called
TaskBackupBegin ==
    /\ taskPc = "backup"
    /\ BackupBegin
    /\ taskPc' = "backing"
    /\ UNCHANGED <<taskFailed, rlVars>>

\* a later step of create_backup; when it returns, None is a failed backup,
\* and the cycle is over
TaskBackupStep(step) ==
    /\ taskPc = "backing"
    /\ step
    /\ IF bkPc' = "idle"
       THEN /\ taskPc' = "sleep"
            /\ taskFailed' = IF bkRet'.status = "none" THEN "failed"
                             ELSE taskFailed
       ELSE UNCHANGED <<taskPc, taskFailed>>
    /\ UNCHANGED rlVars

\* except Exception as e: logger.error(...)
TaskExcept ==
    /\ taskPc = "except"
    /\ taskPc' = TaskAfterFailure
    /\ UNCHANGED <<taskFailed, rlVars, dmVars, bkVars>>

\* the background thread sleeps 300 seconds at the start of every cycle;
\* the configured backup interval is given in hours
SLEEP_SECONDS == 300
BACKUP_INTERVAL_HOURS == 24
SecondsPerHour == 3600
MaxTaskClock == 1200

\* time.sleep(300) with the time it takes: the wall clock that names the
\* snapshots has moved on by 300 seconds when the cycle begins
TaskSleep ==
    /\ taskPc = "sleep"
    /\ clock + SLEEP_SECONDS <= MaxTaskClock
    /\ clock' = clock + SLEEP_SECONDS
    /\ taskPc' = "cleanup"
    /\ taskFailed' = IF taskFailed = "failed" THEN "recovered" ELSE taskFailed
    /\ UNCHANGED <<os_name, today, file, tmp, quarantine, savePc, saveArg,
                   saveGiven, saveRet, fresh, loadRet, rlVars, bkVars>>

InitTask ==
    /\ taskPc = "sleep"
    /\ taskFailed = "no"

(***************************************************************************)
(* app.py: handle_button_click                                             *)
(***************************************************************************)
\* mutant of ClickAfterSave: a failed save ends the handler
ClickAfterSaveAborts(r) == IF r = "true" THEN "emit" ELSE "idle"

\* what handle_button_click does once save_button_state has returned: the
\* result is logged when it is False, the broadcast follows in both cases
ClickAfterSave(r) == "emit"

\* handle_button_click up to the rate limit check; session['client_id'] is
\* the client
ClickAdmit(c) ==
    /\ clickPc[c] = "idle"
    /\ IsAllowed(c)
    /\ clickPc' = [clickPc EXCEPT ![c] = IF rlRet'.allowed THEN "read"
                                         ELSE "limited"]
    /\ clickOut' = [clickOut EXCEPT ![c] =
                      [saved |-> "none", emitted |-> FALSE, count |-> 0]]
    /\ UNCHANGED <<button_state, clickLocal, dmVars>>

\* emit('rate_limited', {..., 'remaining': get_remaining_requests(client_id)})
\* and return
ClickLimited(c) ==
    /\ clickPc[c] = "limited"
    /\ GetRemaining(c)
    /\ clickPc' = [clickPc EXCEPT ![c] = "idle"]
    /\ UNCHANGED <<button_state, clickLocal, clickOut, dmVars>>

\* button_state.get('count', 0): the read of the increment
ClickRead(c) ==
    /\ clickPc[c] = "read"
    /\ clickLocal' = [clickLocal EXCEPT ![c] =
                        IF HasKey(button_state, "count")
                        THEN button_state["count"] ELSE 0]
    /\ clickPc' = [clickPc EXCEPT ![c] = "write"]
    /\ UNCHANGED <<button_state, clickOut, rlVars, dmVars>>

\* button_state['count'] = ... + 1: the write of the increment. A save of
\* another handler that has not yet dumped holds the same dict
ClickWrite(c) ==
    /\ clickPc[c] = "write"
    /\ button_state' = SetKey(button_state, "count", clickLocal[c] + 1)
    /\ saveArg' = IF savePc["clicks"] \in {"open", "dump"}
                  THEN [saveArg EXCEPT !["clicks"] =
                          SetKey(@, "count", clickLocal[c] + 1)]
                  ELSE saveArg
    /\ clickPc' = [clickPc EXCEPT ![c] = "save"]
    /\ UNCHANGED <<clickLocal, clickOut, rlVars, os_name, clock, today, file,
                   tmp, quarantine, savePc, saveGiven, saveRet, fresh, loadRet>>

\* data_manager.save_button_state(button_state): the stamps are written
\* into the global dict
ClickSaveBegin(c) ==
    /\ clickPc[c] = "save"
    /\ SaveBegin("clicks", button_state)
    /\ button_state' = Stamp("clicks", button_state, today, clock)
    /\ clickPc' = [clickPc EXCEPT ![c] = "saving"]
    /\ UNCHANGED <<clickLocal, clickOut, rlVars>>

\* a later step of that save; when it returns the handler goes on
ClickSaveStep(c, step) ==
    /\ clickPc[c] = "saving"
    /\ step
    /\ IF savePc'["clicks"] = "idle"
       THEN /\ clickPc' = [clickPc EXCEPT ![c] =
                             ClickAfterSave(saveRet'["clicks"])]
            /\ clickOut' = [clickOut EXCEPT ![c].saved = saveRet'["clicks"]]
       ELSE UNCHANGED <<clickPc, clickOut>>
    /\ UNCHANGED <<button_state, clickLocal, rlVars>>

\* emit('update_state', button_state, broadcast=True) and return
ClickEmit(c) ==
    /\ clickPc[c] = "emit"
    /\ clickOut' = [clickOut EXCEPT ![c].emitted = TRUE,
                                    ![c].count = button_state["count"]]
    /\ clickPc' = [clickPc EXCEPT ![c] = "idle"]
    /\ UNCHANGED <<button_state, clickLocal, rlVars, dmVars>>

\* initialize_app: button_state = data_manager.load_button_state()
InitApp ==
    /\ button_state = LoadOutcome("clicks", "none").doc
    /\ clickPc = [c \in Clients |-> "idle"]
    /\ clickLocal = [c \in Clients |-> 0]
    /\ clickOut = [c \in Clients |->
                     [saved |-> "none", emitted |-> FALSE, count |-> 0]]

(***************************************************************************)
(* Specifications                                                          *)
(***************************************************************************)

Init ==
    /\ InitRL /\ InitConn /\ InitDM /\ InitBackup
    /\ InitRestore /\ InitLock /\ InitTask /\ InitApp

SpecRL == Init /\ [][NextRL]_vars
SpecConn == Init /\ [][NextConn]_vars
SpecDM == Init /\ [][NextDM]_vars
InitPosix == Init /\ os_name = "posix"
SpecBackup == InitPosix /\ [][NextBackup]_vars


\* a document file left by an earlier run of the program
StoredDoc(n) ==
    IF n = "clicks" THEN [count |-> 1]
    ELSE IF n = "achievements"
    THEN [global_unlocked |-> <<"a1">>,
          player_achievements |-> [k \in {<<"str", "u1">>} |-> <<"a1">>]]
    ELSE [clicks_today |-> 3, date |-> 1, clicks_per_hour |-> Clicked,
          unique_users |-> 1]
StoredFile(n) == JsonOf(JsonText(Stamp(n, StoredDoc(n), 1, 0)))

\* the program starts in a data directory that is empty or holds the three
\* document files an earlier run saved
InitStored ==
    /\ InitRL /\ InitConn /\ InitBackup
    /\ os_name = "posix"
    /\ clock = 0
    /\ today = 1
    /\ file \in {[n \in Names |-> Absent], [n \in Names |-> StoredFile(n)]}
    /\ tmp = [n \in Names |-> Absent]
    /\ quarantine = {}
    /\ savePc = [n \in Names |-> "idle"]
    /\ saveArg = [n \in Names |-> NoDoc]
    /\ saveGiven = [n \in Names |-> [doc |-> NoDoc, today |-> 0]]
    /\ saveRet = [n \in Names |-> "none"]
    /\ fresh = [n \in Names |-> FALSE]
    /\ loadRet = [n \in Names |-> [status |-> "none", doc |-> NoDoc]]
    /\ InitRestore /\ InitLock /\ InitTask /\ InitApp

\* create_backup calls with the faults that end a call or a removal, and a
\* read error that load_stats answers with the default; no saver running
NextSnapshot ==
    \/ BackupBegin /\ UNCHANGED notBackup
    \/ \E n \in Names : \E err \in {"none", "perm"} :
          BackupLoad(n, err, TRUE) /\ UNCHANGED notBackup
    \/ BackupLoad("stats", "io", TRUE) /\ UNCHANGED notBackup
    \/ \E o \in {"ok", "open_failed", "dump_failed"} :
          BackupWrite(o) /\ UNCHANGED notBackup
    \/ \E k \in 0..MAX_BACKUPS :
          BackupCleanup(k) /\ UNCHANGED notBackup
    \/ clock < MaxBackupClock /\ TickClock /\ UNCHANGED notDM

SpecSnapshot == InitStored /\ [][NextSnapshot]_vars

\* what the threads of SpecLock save
LockSaveArgs(n) ==
    {StoredDoc(n), NonDict}
        \cup (IF n = "clicks" THEN {RestoredDoc(n)} ELSE {})

\* two threads that call the loads and saves of the three documents; a save
\* leaves its with block by returning True, by returning False after a
\* failed rename, or by raising on an argument that is no dict
NextLock ==
    \/ \E t \in Threads : \E op \in {"load", "save"} : \E n \in Names :
          ThreadAcquire(t, op, n) /\ UNCHANGED notLock
    \/ \E t \in Threads : \E n \in Names :
          ThreadLoad(t, n, "none") /\ UNCHANGED notLock
    \/ \E t \in Threads : \E n \in Names : \E d \in LockSaveArgs(n) :
          ThreadSaveBegin(t, n, d) /\ UNCHANGED notLock
    \/ \E t \in Threads : \E n \in Names :
          ThreadSaveStep(t, n, SaveOpen(n, TRUE)) /\ UNCHANGED notLock
    \/ \E t \in Threads : \E n \in Names :
          ThreadSaveStep(t, n, SaveDump(n, TRUE)) /\ UNCHANGED notLock
    \/ \E t \in Threads : \E n \in Names : \E ok \in BOOLEAN :
          ThreadSaveStep(t, n, SaveReplace(n, ok)) /\ UNCHANGED notLock
    \/ \E t \in Threads : \E n \in Names :
          ThreadSaveStep(t, n, SaveExcept(n, TRUE)) /\ UNCHANGED notLock

SpecLock == InitPosix /\ [][NextLock]_vars

\* the cleanup_task thread alone, with the time its sleeps take
NextSchedule ==
    \/ TaskSleep /\ UNCHANGED notTask
    \/ \E ok \in BOOLEAN : TaskCleanup(ok) /\ UNCHANGED notTask
    \/ TaskBackupBegin /\ UNCHANGED notTask
    \/ \E n \in Names : \E err \in {"none", "perm"} :
          TaskBackupStep(BackupLoad(n, err, TRUE)) /\ UNCHANGED notTask
    \/ \E o \in {"ok", "open_failed", "dump_failed"} :
          TaskBackupStep(BackupWrite(o)) /\ UNCHANGED notTask
    \/ \E k \in 0..MAX_BACKUPS :
          TaskBackupStep(BackupCleanup(k)) /\ UNCHANGED notTask
    \/ TaskExcept /\ UNCHANGED notTask

SpecSchedule == InitPosix /\ [][NextSchedule]_vars

\* the documents the handlers save next to a running create_backup
ConsistentSaverDocs(n) == {StoredDoc(n)}

\* create_backup without I/O faults next to handlers that save the counter
\* document (handle_button_click) and the statistics document
\* (handle_connect, handle_button_click)
NextConsistent ==
    \/ BackupBegin /\ UNCHANGED exceptBackup /\ Observe
    \/ \E n \in Names :
          BackupLoad(n, "none", TRUE) /\ UNCHANGED exceptBackup /\ Observe
    \/ BackupWrite("ok") /\ UNCHANGED exceptBackup /\ Observe
    \/ BackupCleanup(Excess(backups)) /\ UNCHANGED exceptBackup /\ Observe
    \/ \E n \in {"clicks", "stats"} : \E d \in ConsistentSaverDocs(n) :
          SaveBegin(n, d) /\ UNCHANGED exceptDM /\ Observe
    \/ \E n \in {"clicks", "stats"} :
          SaveOpen(n, TRUE) /\ UNCHANGED exceptDM /\ Observe
    \/ \E n \in {"clicks", "stats"} :
          SaveDump(n, TRUE) /\ UNCHANGED exceptDM /\ Observe
    \/ \E n \in {"clicks", "stats"} :
          SaveReplace(n, TRUE) /\ UNCHANGED exceptDM /\ Observe

SpecConsistent == InitPosix /\ [][NextConsistent]_vars

\* the operations the threads of SpecWait call: loads and saves of the
\* counter document, is_allowed and cleanup_old_entries
WaitNames == {"clicks"}
WaitCalls ==
    ({"load", "save"} \X WaitNames)
        \cup {<<"is_allowed", "rate">>, <<"cleanup_old_entries", "rate">>}

\* what is outside the locks, the documents and the limiter
exceptWait == <<connVars, bkVars, rsVars, taskVars, appVars, bkSeen>>

\* a step of thread t inside a with block
ThreadBody(t) ==
    \/ \E n \in WaitNames : \E err \in {"none", "perm"} :
          ThreadLoad(t, n, err) /\ UNCHANGED notLock
    \/ \E n \in WaitNames : \E d \in {StoredDoc(n), NonDict} :
          ThreadSaveBegin(t, n, d) /\ UNCHANGED notLock
    \/ \E n \in WaitNames :
          ThreadSaveStep(t, n, SaveOpen(n, TRUE)) /\ UNCHANGED notLock
    \/ \E n \in WaitNames :
          ThreadSaveStep(t, n, SaveDump(n, TRUE)) /\ UNCHANGED notLock
    \/ \E n \in WaitNames : \E ok \in BOOLEAN :
          ThreadSaveStep(t, n, SaveReplace(n, ok)) /\ UNCHANGED notLock
    \/ \E n \in WaitNames :
          ThreadSaveStep(t, n, SaveExcept(n, TRUE)) /\ UNCHANGED notLock
    \/ ThreadIsAllowed(t, "A") /\ UNCHANGED exceptWait
    \/ ThreadCleanup(t) /\ UNCHANGED exceptWait

\* a step of thread t into a with block
ThreadEnters(t) == ThreadEnter(t) /\ UNCHANGED exceptWait

\* request handlers and the background thread as threads that call these
\* operations one after the other and wait at the Locks
NextWait ==
    \/ \E t \in Threads : \E call \in WaitCalls :
          ThreadCall(t, call[1], call[2]) /\ UNCHANGED exceptWait
    \/ \E t \in Threads : ThreadEnters(t)
    \/ \E t \in Threads : ThreadBody(t)

\* a thread inside a with block keeps running, and a thread that waits at a
\* Lock which is released again and again gets it
SpecWait ==
    /\ InitPosix
    /\ [][NextWait]_vars
    /\ \A t \in Threads : WF_vars(ThreadBody(t)) /\ SF_vars(ThreadEnters(t))

\* handle_button_click handlers of the clients within one rate limit window,
\* called without a client_id in data, with every fault of the save of the
\* counter document
NextApp ==
    \/ \E c \in Clients : ClickAdmit(c) /\ UNCHANGED notApp
    \/ \E c \in Clients : ClickLimited(c) /\ UNCHANGED notApp
    \/ \E c \in Clients : ClickRead(c) /\ UNCHANGED notApp
    \/ \E c \in Clients : ClickWrite(c) /\ UNCHANGED notApp
    \/ \E c \in Clients : ClickSaveBegin(c) /\ UNCHANGED notApp
    \/ \E c \in Clients : \E ok \in BOOLEAN :
          ClickSaveStep(c, SaveOpen("clicks", ok)) /\ UNCHANGED notApp
    \/ \E c \in Clients : \E ok \in BOOLEAN :
          ClickSaveStep(c, SaveDump("clicks", ok)) /\ UNCHANGED notApp
    \/ \E c \in Clients : \E ok \in BOOLEAN :
          ClickSaveStep(c, SaveReplace("clicks", ok)) /\ UNCHANGED notApp
    \/ \E c \in Clients : \E ok \in BOOLEAN :
          ClickSaveStep(c, SaveExcept("clicks", ok)) /\ UNCHANGED notApp
    \/ \E c \in Clients : ClickEmit(c) /\ UNCHANGED notApp

SpecApp == InitPosix /\ [][NextApp]_vars

\* the steps of the cleanup_task thread, with the faults of a cycle: a
\* raising cleanup, a raising load, a failed snapshot write, a failed removal
TaskStep ==
    \/ TaskWake /\ UNCHANGED notTask
    \/ \E ok \in BOOLEAN : TaskCleanup(ok) /\ UNCHANGED notTask
    \/ TaskBackupBegin /\ UNCHANGED notTask
    \/ \E n \in Names : \E err \in {"none", "perm"} :
          TaskBackupStep(BackupLoad(n, err, TRUE)) /\ UNCHANGED notTask
    \/ \E o \in {"ok", "open_failed", "dump_failed"} :
          TaskBackupStep(BackupWrite(o)) /\ UNCHANGED notTask
    \/ \E k \in 0..MAX_BACKUPS :
          TaskBackupStep(BackupCleanup(k)) /\ UNCHANGED notTask
    \/ TaskExcept /\ UNCHANGED notTask

\* the cleanup_task thread next to the request thread of a client that
\* calls is_allowed
NextTask ==
    \/ TaskWake /\ UNCHANGED notTask
    \/ \E ok \in BOOLEAN : TaskCleanup(ok) /\ UNCHANGED notTask
    \/ TaskBackupBegin /\ UNCHANGED notTask
    \/ \E n \in Names : \E err \in {"none", "perm"} :
          TaskBackupStep(BackupLoad(n, err, TRUE)) /\ UNCHANGED notTask
    \/ \E o \in {"ok", "open_failed", "dump_failed"} :
          TaskBackupStep(BackupWrite(o)) /\ UNCHANGED notTask
    \/ \E k \in 0..MAX_BACKUPS :
          TaskBackupStep(BackupCleanup(k)) /\ UNCHANGED notTask
    \/ TaskExcept /\ UNCHANGED notTask
    \/ IsAllowed("A") /\ UNCHANGED notRL
    \/ Tick /\ UNCHANGED notRL

\* the daemon thread is scheduled again and again: a step of cleanup_task
\* that can be taken is eventually taken
SpecTask == InitPosix /\ [][NextTask]_vars /\ WF_vars(TaskStep)

\* restore_from_backup calls with every fault of the saves they make, over
\* a day change
NextRestore ==
    \/ \E c \in RestoreInputs : RestoreBegin(c) /\ UNCHANGED notRestore
    \/ \E n \in Names : RestoreCall(n) /\ UNCHANGED notRestore
    \/ \E n \in Names : \E ok \in BOOLEAN : SaveOpen(n, ok) /\ UNCHANGED notDM
    \/ \E n \in Names : \E ok \in BOOLEAN : SaveDump(n, ok) /\ UNCHANGED notDM
    \/ \E n \in Names : \E ok \in BOOLEAN : SaveReplace(n, ok) /\ UNCHANGED notDM
    \/ \E n \in Names : \E ok \in BOOLEAN : SaveExcept(n, ok) /\ UNCHANGED notDM
    \/ \E n \in Names : RestoreResume(n) /\ UNCHANGED notRestore
    \/ today < MaxDay /\ NewDay /\ UNCHANGED notDM

SpecRestore == InitStored /\ [][NextRestore]_vars

\* no save is in progress
Quiet == \A n \in Names : savePc[n] = "idle"

\* the snapshot files at the path the last create_backup returned
ReturnedPath == {i \in DOMAIN backups : backups[i].stamp = bkRet.stamp}

\* the program starts over the three document files an earlier run saved
InitRoundTrip == InitStored /\ file = [n \in Names |-> StoredFile(n)]

\* one caller after the other: create_backup, then saves of other counter
\* and statistics documents, midnight between two calls, and
\* restore_from_backup of the path that create_backup returned; no I/O
\* faults
NextRoundTrip ==
    \/ /\ Quiet /\ rsPc.st = "idle"
       /\ BackupBegin /\ UNCHANGED exceptBackup /\ Observe
    \/ \E n \in Names :
          BackupLoad(n, "none", TRUE) /\ UNCHANGED exceptBackup /\ Observe
    \/ BackupWrite("ok") /\ UNCHANGED exceptBackup /\ Observe
    \/ BackupCleanup(Excess(backups)) /\ UNCHANGED exceptBackup /\ Observe
    \/ \E n \in {"clicks", "stats"} :
          /\ Quiet /\ bkPc = "idle" /\ rsPc.st = "idle"
          /\ SaveBegin(n, RestoredDoc(n)) /\ UNCHANGED notDM
    \/ \E n \in Names : SaveOpen(n, TRUE) /\ UNCHANGED notDM
    \/ \E n \in Names : SaveDump(n, TRUE) /\ UNCHANGED notDM
    \/ \E n \in Names : SaveReplace(n, TRUE) /\ UNCHANGED notDM
    \/ \E i \in ReturnedPath :
          /\ Quiet /\ bkPc = "idle" /\ bkRet.status = "path"
          /\ RestoreBegin(backups[i].content) /\ UNCHANGED notRestore
    \/ \E n \in Names : RestoreCall(n) /\ UNCHANGED notRestore
    \/ \E n \in Names : RestoreResume(n) /\ UNCHANGED notRestore
    \/ /\ Quiet /\ bkPc = "idle" /\ today < MaxDay
       /\ NewDay /\ UNCHANGED notDM

SpecRoundTrip == InitRoundTrip /\ [][NextRoundTrip]_vars

(***************************************************************************)
(* Properties                                                              *)
(***************************************************************************)
NonExpired(tbl, c, t) == SelectSeq(GetLog(tbl, c), LAMBDA ts : t - ts <= WINDOW)
Strip(d, ex) == [f \in (DOMAIN d) \ ex |-> d[f]]
Stamped == {"version", "last_updated"}
DailyFields == {"clicks_today", "clicks_per_hour", "date"}
\* a document whose maps are keyed by strings, as JSON objects are
JsonNative(d) ==
    \A f \in KeyedFields \cap DOMAIN d : \A k \in DOMAIN d[f] : k[1] = "str"
SaveStep(n) ==
    \E ok \in BOOLEAN :
        \/ SaveOpen(n, ok) \/ SaveDump(n, ok) \/ SaveReplace(n, ok)
        \/ SaveRenameNt(n, ok) \/ SaveExcept(n, ok)

\* C1: no closed span of WINDOW seconds holds more than max_requests admitted
\* is_allowed calls of one client: once max_requests calls were admitted in a
\* span, every further call in that span is refused.
C1_AtMostRPerSpan ==
    \A c \in Clients : \A i \in DOMAIN admitted[c] :
        (i + max_requests) \in DOMAIN admitted[c] =>
            admitted[c][i + max_requests] - admitted[c][i] > WINDOW

\* a call refused exactly WINDOW seconds after the first of max_requests
\* admitted calls
C1_Witness ==
    /\ rlRet.op = "is_allowed" /\ ~rlRet.allowed
    /\ Len(admitted[rlRet.client]) = max_requests
    /\ rlRet.at - admitted[rlRet.client][1] = WINDOW

\* C2: the active connection set never holds more than max_connections
\* identities, whatever the interleaving of the connection handlers.
C2_AtMostN == Cardinality(active_connections) <= max_connections

\* C3: every step of a save leaves the target file either as it was or
\* holding the complete new document (never missing, never partial).
C3_TargetOldOrNew ==
    [][\A n \in Names :
         SaveStep(n) => file'[n] \in {file[n], JsonOf(JsonText(saveArg[n]))}]_vars

\* C4: a save never raises, and after a save returned false no '<file>.tmp'
\* is left.
C4_SaveNeverRaises ==
    \A n \in Names :
        /\ saveRet[n] # "raised"
        /\ saveRet[n] = "false" => ~Exists(tmp[n])

\* C5 as stated: a load after a successful save of a document (its maps keyed
\* by strings) returns the saved document but for version and last_updated.
C5_RoundTrip ==
    \A n \in Names :
        (fresh[n] /\ loadRet[n].status = "read" /\ JsonNative(saveGiven[n].doc)) =>
            Strip(loadRet[n].doc, Stamped) = Strip(saveGiven[n].doc, Stamped)

\* C5 amended: for a document keyed by strings, a load after a successful
\* save returns the saved document but for version and last_updated and, when
\* a statistics document's date was not the date of the save, but for
\* clicks_today, clicks_per_hour and date.
C5_RoundTripAmended ==
    \A n \in Names :
        (fresh[n] /\ loadRet[n].status = "read" /\ JsonNative(saveGiven[n].doc)) =>
            LET d == saveGiven[n].doc
                ex == IF n = "stats" /\ d["date"] # saveGiven[n].today
                      THEN Stamped \cup DailyFields ELSE Stamped
            IN Strip(loadRet[n].doc, ex) = Strip(d, ex)

\* a counter document with an extra field was saved and read back
C5_Witness ==
    /\ fresh["clicks"] /\ loadRet["clicks"].status = "read"
    /\ saveRet["clicks"] = "true"
    /\ saveGiven["clicks"].doc = [count |-> 2, test |-> TRUE]
    /\ loadRet["clicks"].doc["test"] = TRUE

\* C6: a load that finds a structurally invalid file returns the default
\* document and leaves a quarantined copy of that file (the copy itself
\* succeeding).
C6_InvalidQuarantined ==
    [][\A n \in Names :
         (Load(n, "none", TRUE) /\ file[n] \in InvalidContents(n)) =>
            /\ loadRet'[n].status = "default"
            /\ \E q \in quarantine' : q.name = n /\ q.content = file[n]]_vars

\* C7: with no I/O fault, once MAX_BACKUPS + 1 or more create_backup calls
\* have succeeded the directory holds exactly MAX_BACKUPS snapshots, those of
\* the last MAX_BACKUPS successful calls.
C7_RotationKeepsNewest ==
    (bkPc = "idle" /\ ~bkFault /\ Len(bkCreated) = MAX_BACKUPS + 1) =>
        /\ Len(backups) = MAX_BACKUPS
        /\ Stamps(backups) = {bkCreated[i] : i \in 2..(MAX_BACKUPS + 1)}
        /\ Cardinality(Stamps(backups)) = MAX_BACKUPS

\* C8: the statistics document a successful save_stats persists has
\* clicks_today = 0, clicks_per_hour all zero and date = today when the
\* argument's date was not today, and the argument's values otherwise.
C8_DailyRollover ==
    (fresh["stats"] /\ saveRet["stats"] = "true") =>
        LET d == saveGiven["stats"].doc
            day == saveGiven["stats"].today
            p == file["stats"].v
        IN IF d["date"] # day
           THEN /\ p["clicks_today"] = 0
                /\ p["clicks_per_hour"] = Zeros
                /\ p["date"] = day
           ELSE /\ p["clicks_today"] = d["clicks_today"]
                /\ p["clicks_per_hour"] = d["clicks_per_hour"]
                /\ p["date"] = d["date"]

\* a statistics document of another day was saved
C8_Witness ==
    /\ fresh["stats"] /\ saveRet["stats"] = "true"
    /\ saveGiven["stats"].doc["date"] # saveGiven["stats"].today
    /\ saveGiven["stats"].doc["clicks_today"] > 0
    /\ file["stats"].v["clicks_today"] = 0

\* C9: is_allowed refuses a client only if max_requests of its admitted
\* calls are at most WINDOW seconds old: once the oldest call of a full log
\* is older than that, the next call is admitted.
C9_AdmittedAgainAfterWindow ==
    (rlRet.op = "is_allowed" /\ ~rlRet.allowed) =>
        LET h == admitted[rlRet.client]
        IN /\ Len(h) >= max_requests
           /\ rlRet.at - h[Len(h) - max_requests + 1] <= WINDOW

\* a client that had filled its log is admitted once those calls are older
\* than WINDOW
C9_Witness ==
    /\ rlRet.op = "is_allowed" /\ rlRet.allowed
    /\ LET h == admitted[rlRet.client]
       IN /\ Len(h) = max_requests + 1
          /\ h[Len(h)] = rlRet.at
          /\ h[max_requests] - h[1] <= WINDOW
          /\ rlRet.at - h[1] > WINDOW

\* C10: get_remaining_requests returns max(0, R - number of entries at most
\* WINDOW seconds old), and leaves every entry that is not expired in place:
\* the answer of every later is_allowed or get_remaining_requests call, for
\* every client, is what it would have been without the call.
C10_RemainingIsPureQuery ==
    [][\A c \in Clients :
         GetRemaining(c) =>
            /\ rlRet'.remaining =
                 Max(0, max_requests - Len(NonExpired(requests, c, now)))
            /\ \A x \in Clients :
                 /\ NonExpired(requests', x, now) = NonExpired(requests, x, now)
                 /\ \A t \in now..MaxTime :
                      /\ AllowedAt(requests', x, t) = AllowedAt(requests, x, t)
                      /\ RemainingAt(requests', x, t) = RemainingAt(requests, x, t)]_vars

\* the query purged an expired entry and counted the one that was left
C10_Witness ==
    /\ rlRet.op = "get_remaining_requests"
    /\ rlRet.remaining = max_requests - 1
    /\ Len(GetLog(requests, rlRet.client)) = 1
    /\ Len(admitted[rlRet.client]) >= 2
    /\ rlRet.at - admitted[rlRet.client][1] > WINDOW

\* C11: cleanup_old_entries removes no entry that is at most WINDOW seconds
\* old; when it returns, no client with an empty log is left in the table,
\* and a client that has non-expired entries keeps exactly those entries.
C11_CleanupKeepsLive ==
    [][CleanupOldEntries =>
         /\ \A c \in Clients :
              NonExpired(requests', c, now) = NonExpired(requests, c, now)
         /\ \A c \in DOMAIN requests' : requests'[c] # <<>>
         /\ \A c \in DOMAIN requests :
              NonExpired(requests, c, now) # <<>> =>
                  /\ c \in DOMAIN requests'
                  /\ requests'[c] = NonExpired(requests, c, now)]_vars

\* after a sweep one client is gone from the table and another one is left
\* with fewer entries than it was admitted calls, the oldest being expired
C11_Witness ==
    /\ rlRet.op = "cleanup_old_entries"
    /\ \E c \in Clients \ DOMAIN requests : admitted[c] # <<>>
    /\ \E d \in DOMAIN requests :
         /\ requests[d] # <<>>
         /\ Len(requests[d]) < Len(admitted[d])
         /\ rlRet.at - admitted[d][1] > WINDOW

\* the clients whose log the last call looked at
Inspected ==
    IF rlRet.op = "cleanup_old_entries" THEN Clients
    ELSE IF rlRet.op = "none" THEN {} ELSE {rlRet.client}

\* the entries of a log that are exactly WINDOW seconds old at time t
AtBoundary(tbl, c, t) == SelectSeq(GetLog(tbl, c), LAMBDA ts : t - ts = WINDOW)

\* C18 (as stated): an entry that is exactly WINDOW seconds old when
\* is_allowed, get_remaining_requests or cleanup_old_entries runs is purged
\* by the call, so none is left in a log the call looked at.
C18_BoundaryExpired ==
    \A c \in Inspected : AtBoundary(requests, c, rlRet.at) = <<>>

\* C18 (amended): an entry that is exactly WINDOW seconds old is kept by
\* is_allowed, get_remaining_requests and cleanup_old_entries, and it counts
\* against max_requests in the answer of the call.
C18_BoundaryKept ==
    [][/\ \A c \in Clients :
            (IsAllowed(c) \/ GetRemaining(c) \/ CleanupOldEntries) =>
                /\ AtBoundary(requests', c, now) = AtBoundary(requests, c, now)
                /\ AtBoundary(requests, c, now) # <<>> =>
                     c \in DOMAIN requests'
       /\ \A c \in Clients :
            IsAllowed(c) =>
                rlRet'.allowed =
                    (Len(NonExpired(requests, c, now)) < max_requests)
       /\ \A c \in Clients :
            GetRemaining(c) =>
                rlRet'.remaining =
                    max_requests - Len(NonExpired(requests, c, now))]_vars

\* a call is refused because of an entry that is exactly WINDOW seconds old
C18_Witness ==
    /\ rlRet.op = "is_allowed" /\ ~rlRet.allowed
    /\ Len(AtBoundary(requests, rlRet.client, rlRet.at)) >= 1
    /\ Len(GetLog(requests, rlRet.client)) = max_requests

\* C19: an is_allowed call that returns false appends no timestamp and
\* leaves every log as it was; an is_allowed call changes a log only when
\* it returns true.
C19_RefusalLeavesLog ==
    [][\A c \in Clients :
         IsAllowed(c) =>
            /\ ~rlRet'.allowed =>
                 \A x \in Clients : GetLog(requests', x) = GetLog(requests, x)
            /\ (\E x \in Clients : GetLog(requests', x) # GetLog(requests, x))
                 => rlRet'.allowed]_vars

\* a refused call on a full log
C19_Witness ==
    /\ rlRet.op = "is_allowed" /\ ~rlRet.allowed
    /\ Len(GetLog(requests, rlRet.client)) = max_requests
    /\ GetWarn(warning_counts, rlRet.client) >= 1
    /\ rlRet.at = now

\* C12: a load of a file that exists but cannot be opened (permission
\* denied) raises to the caller and returns no default; a load of a file
\* that does not exist returns the default document and raises nothing.
C12_DeniedRaisesAbsentDefaults ==
    [][\A n \in Names : \A copyOk \in BOOLEAN :
         /\ (Exists(file[n]) /\ Load(n, "perm", copyOk)) =>
                loadRet'[n] = [status |-> "raised", doc |-> NoDoc]
         /\ (~Exists(file[n]) /\ Load(n, "none", copyOk)) =>
                loadRet'[n] = [status |-> "default",
                               doc |-> DefaultDoc(n, clock, today)]]_vars

\* a load of a saved, valid document was refused by the file system
C12_Witness ==
    \E n \in Names :
        /\ loadRet[n].status = "raised"
        /\ file[n].k = "json" /\ Valid(n, file[n].v)
        /\ fresh[n]

C17_NoneOnAnyFailure ==
    [][\A k \in 0..MAX_BACKUPS :
         (BackupCleanup(k) /\ k < Excess(backups)) =>
             bkRet'.status = "none"]_vars

\* C17 (amended): create_backup ends with a path or with None, never with
\* an exception. The path it returns names a snapshot that exists and holds
\* the three documents as they were loaded; it returns None when a load
\* raises or when opening or writing the snapshot fails; a removal that
\* fails inside the rotation is logged and the path is still returned.
C17_BackupOutcome ==
    [][/\ \A k \in 0..MAX_BACKUPS :
            BackupCleanup(k) =>
                /\ bkRet' = [status |-> "path", stamp |-> bkStamp]
                /\ \E i \in DOMAIN backups' :
                     /\ backups'[i].stamp = bkStamp
                     /\ backups'[i].content.k = "json"
                     /\ SnapshotKeys \subseteq DOMAIN backups'[i].content.v
                     /\ backups'[i].content.v["button_state"] =
                            JsonText(bkData["clicks"])
                     /\ backups'[i].content.v["achievements"] =
                            JsonText(bkData["achievements"])
                     /\ backups'[i].content.v["stats"] =
                            JsonText(bkData["stats"])
       /\ \A n \in Names :
            BackupLoad(n, "perm", TRUE) =>
                bkPc' = "idle" /\ bkRet'.status = "none"
       /\ \A o \in {"open_failed", "dump_failed"} :
            BackupWrite(o) => bkPc' = "idle" /\ bkRet'.status = "none"
       /\ bkRet'.status \in {"none", "running", "path"}]_vars

\* a call returned a path although a removal of the rotation failed
C17_Witness ==
    /\ bkPc = "idle" /\ bkRet.status = "path"
    /\ Len(backups) > MAX_BACKUPS
    /\ \E i \in DOMAIN backups :
         /\ backups[i].stamp = bkRet.stamp
         /\ backups[i].content.k = "json"
         /\ backups[i].content.v["button_state"] # NoDoc

\* C13: restore_from_backup returns true exactly when the snapshot holds all
\* three keys and each of the three saves returned true; when a save failed
\* it returns false, and every document whose save returned true keeps the
\* restored content: nothing is rolled back.
C13_RestoreAllOrReport ==
    (rsPc.st = "idle" /\ rsRet \in {"true", "false"}) =>
        /\ (rsRet = "true") <=>
               (HasAllKeys(rsInput) /\ \A n \in Names : rsSaves[n] = "true")
        /\ \A n \in Names :
             rsSaves[n] = "true" =>
                 /\ file[n].k = "json"
                 /\ Strip(file[n].v, Stamped \cup DailyFields) =
                        Strip(rsInput.v[KeyOf(n)], Stamped \cup DailyFields)

\* a restore over stored documents returned false after its first save had
\* replaced the counter document and a later save had failed
C13_Witness ==
    /\ rsPc.st = "idle" /\ rsRet = "false"
    /\ rsSaves["clicks"] = "true"
    /\ rsSaves["achievements"] = "false"
    /\ rsSaves["stats"] = "true"
    /\ file["clicks"].v["count"] = RestoredDoc("clicks")["count"]
    /\ file["achievements"] = StoredFile("achievements")
    /\ file["stats"].v["unique_users"] = RestoredDoc("stats")["unique_users"]

\* C14: at most one thread at a time is inside a load or a save of one
\* document, and a load or save of a document can start whenever no thread
\* is inside an operation on that document, whatever is in progress on the
\* other documents.
C14_PerDocumentExclusion ==
    \A n \in Names :
        /\ Cardinality({t \in Threads : Inside(t, n)}) <= 1
        /\ (\A t \in Threads : ~Inside(t, n)) => CanAcquire(n)

\* one thread is in the middle of a save of the counter document while the
\* other one holds the lock of the statistics document
C14_Witness ==
    \E t, u \in Threads :
        /\ tpc[t] = [op |-> "save", name |-> "clicks", st |-> "running"]
        /\ savePc["clicks"] = "dump"
        /\ tpc[u] = [op |-> "load", name |-> "stats", st |-> "locked"]

\* C16: when the save of the counter fails during an admitted click, the
\* handler goes on to the broadcast: it leaves the incremented in-memory
\* counter as it is and emits the in-memory state.
C16_FailedSaveStillBroadcasts ==
    [][\A c \in Clients :
         /\ (clickPc[c] = "saving" /\ clickPc'[c] # "saving"
                /\ saveRet'["clicks"] = "false") =>
                /\ clickPc'[c] = "emit"
                /\ button_state' = button_state
         /\ (clickPc[c] = "emit" /\ clickPc'[c] # "emit") =>
                /\ clickOut'[c].emitted
                /\ clickOut'[c].count = button_state["count"]
                /\ button_state' = button_state]_vars

\* a click whose save failed was broadcast with a counter that no file holds
C16_Witness ==
    \E c \in Clients :
        /\ clickPc[c] = "idle"
        /\ clickOut[c].saved = "false"
        /\ clickOut[c].emitted
        /\ clickOut[c].count >= 1
        /\ clickOut[c].count = button_state["count"]
        /\ file["clicks"] = Absent

\* C15: a failure inside a cycle of cleanup_task, a raising cleanup or a
\* failed backup, never ends the task: the loop is never left, and after
\* every failed cycle a further cycle begins.
C15_TaskSurvivesFailure ==
    /\ [](taskPc # "dead")
    /\ (taskFailed = "failed") ~> (taskFailed = "recovered")

\* a cycle that began after a failed one is creating its backup
C15_Witness ==
    /\ taskFailed = "recovered"
    /\ taskPc = "backing"
    /\ bkPc = "write"

(***************************************************************************)
(* Further properties of RateLimiter                                       *)
(***************************************************************************)
Ordered(log) == \A i, j \in DOMAIN log : i < j => log[i] <= log[j]

\* C27: in every reachable state each log is ordered oldest first and holds
\* at most max_requests timestamps, and in the state right after is_allowed,
\* get_remaining_requests or cleanup_old_entries inspected a log every
\* timestamp in that log is at most 60 seconds older than the inspection.
C27_LogsOrderedBoundedFresh ==
    /\ \A c \in Clients :
         /\ Ordered(GetLog(requests, c))
         /\ Len(GetLog(requests, c)) <= max_requests
    /\ now = rlRet.at =>
         \A c \in Inspected :
            \A i \in DOMAIN GetLog(requests, c) :
               /\ GetLog(requests, c)[i] <= rlRet.at
               /\ rlRet.at - GetLog(requests, c)[i] <= WINDOW

\* cleanup has just run over a full log whose entries have different ages,
\* the oldest of them exactly 60 seconds old
C27_Witness ==
    /\ rlRet.op = "cleanup_old_entries"
    /\ now = rlRet.at
    /\ \E c \in Clients :
         /\ Len(GetLog(requests, c)) = max_requests
         /\ rlRet.at - GetLog(requests, c)[1] = WINDOW
         /\ GetLog(requests, c)[max_requests] > GetLog(requests, c)[1]

\* C30: an is_allowed or get_remaining_requests call for one identity leaves
\* the log of every other identity as it was, and with it the answer that
\* any later call for that other identity gives at any time.
C30_PerIdentityIsolation ==
    [][\A c \in Clients :
         (IsAllowed(c) \/ GetRemaining(c)) =>
            \A x \in Clients \ {c} :
               /\ GetLog(requests', x) = GetLog(requests, x)
               /\ \A t \in now..MaxTime :
                    /\ AllowedAt(requests', x, t) = AllowedAt(requests, x, t)
                    /\ RemainingAt(requests', x, t)
                         = RemainingAt(requests, x, t)]_vars

\* one identity is admitted while the log of another is full
C30_Witness ==
    /\ rlRet.op = "is_allowed"
    /\ rlRet.allowed
    /\ rlRet.at = now
    /\ \E x \in Clients \ {rlRet.client} :
         /\ Len(NonExpired(requests, x, now)) = max_requests
         /\ Len(GetLog(requests, rlRet.client)) = 1

(***************************************************************************)
(* Further properties of the click handler                                 *)
(***************************************************************************)
RECURSIVE AdmittedClicks(_)
AdmittedClicks(cs) ==
    IF cs = {} THEN 0
    ELSE LET c == CHOOSE x \in cs : TRUE
         IN Len(admitted[c]) + AdmittedClicks(cs \ {c})

\* C28: the in-memory counter grows by exactly one for every admitted click
\* and not at all for a refused one: whenever no handler is running, the
\* counter is its initial value, which is 0 here, plus the number of clicks
\* admitted so far.
C28_NoLostUpdate ==
    (\A c \in Clients : clickPc[c] = "idle") =>
        button_state["count"] = AdmittedClicks(Clients)

(***************************************************************************)
(* Further properties of restore_from_backup                               *)
(***************************************************************************)
\* a snapshot file that cannot be read, is not a JSON object, or lacks one
\* of the three keys
Unusable(c) ==
    \/ c.k # "json"
    \/ ~IsDict(c.v)
    \/ \E key \in SnapshotKeys : key \notin DOMAIN c.v

\* C25: restore_from_backup on a snapshot file that is unreadable, is not
\* parseable, or lacks one of the three keys returns false without calling
\* a save: the three document files and their temporary files are as they
\* were before the call.
C25_UnusableSnapshotChangesNothing ==
    [][\A c \in RestoreInputs :
         (RestoreBegin(c) /\ Unusable(c)) =>
            /\ rsRet' = "false"
            /\ rsPc'.st = "idle"
            /\ \A n \in Names : rsSaves'[n] = "none"
            /\ file' = file
            /\ tmp' = tmp
            /\ quarantine' = quarantine]_vars

\* a snapshot without its "stats" key was refused over stored documents
C25_Witness ==
    /\ rsRet = "false"
    /\ rsPc.st = "idle"
    /\ rsInput.k = "json"
    /\ IsDict(rsInput.v)
    /\ "stats" \notin DOMAIN rsInput.v
    /\ "button_state" \in DOMAIN rsInput.v
    /\ \A n \in Names : file[n] = StoredFile(n)

(***************************************************************************)
(* Further properties of create_backup                                     *)
(***************************************************************************)
\* C23: a snapshot file, once created, keeps its content: a step of a later
\* create_backup may add a file or remove one, but a file that is in the
\* directory before and after the step holds the same content.  Stated for
\* runs without an injected I/O fault.
C23_SnapshotNeverOverwritten ==
    [][~bkFault' =>
         \A i \in DOMAIN backups : \A j \in DOMAIN backups' :
            backups[i].stamp = backups'[j].stamp =>
               backups[i].content = backups'[j].content]_vars

(***************************************************************************)
(* Further properties of the document store                                *)
(***************************************************************************)
\* C24: every document the store hands out carries a version tag and a
\* last_updated timestamp: the document a successful save has put into the
\* file, and the default that a load returns.
C24_EveryDocumentStamped ==
    \A n \in Names :
       /\ fresh[n] => (file[n].k = "json" /\ Stamped \subseteq DOMAIN file[n].v)
       /\ loadRet[n].status = "default" =>
             Stamped \subseteq DOMAIN loadRet[n].doc

(***************************************************************************)
(* Further properties of the per-document locks                            *)
(***************************************************************************)
\* a thread is inside a save of document n
SaverInside(n) == \E t \in Threads : Inside(t, n) /\ tpc[t].op = "save"

\* C21: saves of one document take effect in the order in which they take
\* the document's lock: the file changes only when the save that holds the
\* lock returns true, and then to the stamped document of that save; so
\* when no save is in progress and the last one returned true, the file
\* holds the document given to the save that took the lock last.
C21_LastAcquirerWins ==
    /\ [](\A n \in Names :
            (~SaverInside(n) /\ saveRet[n] = "true") =>
                file[n] = JsonOf(JsonText(Stamp(n, saveGiven[n].doc,
                                                saveGiven[n].today, clock))))
    /\ [][\A n \in Names :
            file'[n] # file[n] =>
               \E t \in Threads :
                  /\ locks[LockOf(n)] = t
                  /\ tpc[t] = [op |-> "save", name |-> n, st |-> "running"]
                  /\ saveArg[n] = Stamp(n, saveGiven[n].doc,
                                        saveGiven[n].today, clock)
                  /\ saveRet'[n] = "true"
                  /\ file'[n] = JsonOf(JsonText(saveArg[n]))]_vars

\* the counter file holds the document of a save that returned true while
\* the next holder of the lock is about to replace it with another document
C21_Witness ==
    /\ savePc["clicks"] = "replace"
    /\ file["clicks"].k = "json"
    /\ tmp["clicks"].k = "json"
    /\ file["clicks"].v # tmp["clicks"].v
    /\ \E t \in Threads : locks[LockOf("clicks")] = t

(***************************************************************************)
(* Further properties of cleanup_task                                      *)
(***************************************************************************)
\* C26: the background thread makes a backup once per configured backup
\* interval, whatever the 5-minute cleanup cycle is: two consecutive
\* successful backups of the thread are at least BACKUP_INTERVAL_HOURS apart.
C26_BackupOncePerInterval ==
    \A i \in DOMAIN bkCreated :
       i + 1 \in DOMAIN bkCreated =>
          bkCreated[i + 1] - bkCreated[i]
             >= BACKUP_INTERVAL_HOURS * SecondsPerHour


\* C22: every snapshot create_backup writes is a point-in-time bundle: at
\* some instant between the start of the call and the write, the three
\* document files held, all at once, the three documents of the snapshot.
C22_SnapshotIsPointInTime ==
    bkPc = "cleanup" =>
        \E f \in bkSeen : \A n \in Names : bkData[n] = DocAt(n, f[n])


HeldBy(t) == {k \in LockKeys : locks[k] = t}

RestoreSucceeds ==
    rsPc.st # "idle" /\ rsPc'.st = "idle" /\ rsRet' = "true"

\* the fields of document n that the save of the restore has reset: the
\* daily fields of the statistics when their date is not the day of the save
ResetByRestore(n) ==
    IF n = "stats" /\ rsInput.v["stats"]["date"] # saveGiven["stats"].today
    THEN DailyFields ELSE {}

\* C31 as stated: when restore_from_backup of the path a create_backup
\* returned succeeds, after later saves and possibly on a later day, each of
\* the three files holds the document it held when the backup was taken,
\* except for version and last_updated.
C31_RestoreGivesBackBackedUp ==
    [][RestoreSucceeds =>
         \A f \in bkSeen : \A n \in Names :
            /\ file'[n].k = "json"
            /\ Strip(file'[n].v, Stamped) = Strip(f[n].v, Stamped)]_vars

\* C31, amended: each file then holds the document it held when the backup
\* was taken, except for version and last_updated and, when the date of the
\* backed-up statistics is not the day of the restore, except for the daily
\* fields of the statistics, which are then zero under the day of the
\* restore.
C31_RestoreGivesBackButDaily ==
    [][RestoreSucceeds =>
         /\ bkSeen # {}
         /\ \A f \in bkSeen : \A n \in Names :
              /\ file'[n].k = "json"
              /\ Strip(file'[n].v, Stamped \cup ResetByRestore(n))
                    = Strip(f[n].v, Stamped \cup ResetByRestore(n))
         /\ ResetByRestore("stats") # {} =>
              /\ file'["stats"].v["clicks_today"] = 0
              /\ file'["stats"].v["clicks_per_hour"] = Zeros
              /\ file'["stats"].v["date"] = saveGiven["stats"].today]_vars

\* a restore on the day after the backup has returned True: the counter is
\* back from the later save to the backed-up one, the statistics are under
\* the new day
C31_Witness ==
    /\ rsRet = "true"
    /\ rsPc.st = "idle"
    /\ Quiet
    /\ saveGiven["stats"].doc = rsInput.v["stats"]
    /\ saveGiven["clicks"].doc = rsInput.v["button_state"]
    /\ rsInput.v["button_state"]["count"] = StoredDoc("clicks")["count"]
    /\ file["clicks"].v["count"] = StoredDoc("clicks")["count"]
    /\ rsInput.v["stats"]["date"] # file["stats"].v["date"]
    /\ file["stats"].v["clicks_today"] = 0
    /\ fresh["achievements"]

=============================================================================
